---- MODULE Spec2Model ----
(***************************************************************************)
(* Model of mymodel/run_model.py: the class Dan, the driver that trains,   *)
(* validates, checkpoints and evaluates the DAN network.                   *)
(*                                                                         *)
(* A process is one operating-system process running the script with its   *)
(* own Dan instance; all processes share the file system (the directories  *)
(* ../save_model, ../log, ./draw, the checkpoint files, the log file).     *)
(* Model parameters are opaque: a parameter set is a natural number, 0 for *)
(* the freshly constructed network, a new number for every optimizer step. *)
(* Strings that are formatted into paths are sequences of characters.      *)
(***************************************************************************)
EXTENDS Integers, Sequences, FiniteSets, TLC

VARIABLES
    \* the file system
    dirs,       \* the directories that exist
    files,      \* checkpoint files: path -> [params, by]
    log,        \* the lines of ../log/log.txt
    plots,      \* the PNG files written by draw_loss_plt
    npy,        \* the attention files: id -> attention data
    csv,        \* the rows of the CSV files written
    printed,    \* result lines printed by test_attention
    \* one Dan instance per process
    pc,         \* the position of each process
    ret,        \* where the running helper (save_mode, log_write, ...) returns
    arg,        \* the argument of the running helper
    model,      \* self.model's parameters
    self,       \* the constructor's arguments kept on the instance
    \* locals of train()
    nTrain,                 \* len(train_data_loader)
    epoch,
    step,
    last_test_accuracy,
    test_accuracy_avg,
    verCount,               \* parameter sets produced so far
    nVal,                   \* history: validation passes of this run
    bestAcc,                \* history: highest validation accuracy of this run
    valParams,              \* history: the parameters the last pass measured
    ckptAcc,                \* history: validation accuracy of the saved parameters
    \* locals of test(), test_attention(), prediction_real_data()
    samples,                \* the samples the method's data loader yields, in order
    pos,                    \* samples consumed so far
    acc,
    loss,
    prediction,
    probability,
    result,                 \* self.result
    called                  \* history: the method the main process runs

fsVars    == <<dirs, files, log, plots, npy, csv, printed>>
procVars  == <<pc, ret, arg, model, self>>
trainVars == <<nTrain, epoch, step, last_test_accuracy, test_accuracy_avg,
               verCount, nVal, bestAcc, valParams, ckptAcc>>
evalVars  == <<samples, pos, acc, loss, prediction, probability, result, called>>
vars      == <<fsVars, procVars, trainVars, evalVars>>

(***************************************************************************)
(* Bounds of the model and constants of the program.                       *)
(***************************************************************************)
MaxEpoch == 2
MaxFull == 1
MaxSamples == 3
MaxBatchSize == 2
MaxNameLen == 2
ValSize == 2
ValEvery == 50
BucketWidth == 500

Procs == {"A", "B"}
Main == "A"

SaveDir == "../save_model"
LogDir == "../log"
DrawDir == "./draw"
AttDir == "../log/attention"
DirNames == {SaveDir, LogDir, DrawDir}

(***************************************************************************)
(* Path formatting.                                                        *)
(***************************************************************************)
Underscore == <<"_">>
Slash == <<"/">>
SaveDirChars == <<".", ".", "/", "s", "a", "v", "e", "_", "m", "o", "d", "e", "l">>
PklPrefix == <<"D", "A", "N", "_", "e", "n", "c", "o", "d", "e", "r", "_">>
PklSuffix == <<".", "p", "k", "l">>
LoadTemplatePrefix ==
    <<".", ".", "/", "s", "a", "v", "e", "_", "m", "o", "d", "e", "l", "/",
      "D", "A", "N", "_", "e", "n", "c", "o", "d", "e", "r", "_">>

\* os.path.join(a, b) for a relative b and an a without a trailing separator
path_join(a, b) == a \o Slash \o b

\* 'DAN_encoder_{}_{}_{}.pkl'.format(encoder_name, label_classifier_name, patient)
PklName(s) ==
    PklPrefix \o s.encoder_name \o Underscore \o s.label_classifier_name
              \o Underscore \o s.patient \o PklSuffix

\* save_mode's save_full_path
SavePath(s) == path_join(SaveDirChars, PklName(s))

\* load_model's model_path
LoadPath(s) ==
    LoadTemplatePrefix \o s.encoder_name \o Underscore \o s.label_classifier_name
                       \o Underscore \o s.patient \o PklSuffix

\* the three names a checkpoint is saved under
Triple(s) == <<s.encoder_name, s.label_classifier_name, s.patient>>

(***************************************************************************)
(* Helpers on the process state.                                           *)
(***************************************************************************)
At(p, l) == pc[p] = l
Goto(p, l) == pc' = [pc EXCEPT ![p] = l]
Return(p) == pc' = [pc EXCEPT ![p] = ret[p]]
Call(p, entry, a, back) ==
    /\ pc' = [pc EXCEPT ![p] = entry]
    /\ arg' = [arg EXCEPT ![p] = a]
    /\ ret' = [ret EXCEPT ![p] = back]

\* os.mkdir(d): FileExistsError when d exists
os_mkdir_exist_ok(p, d, next) ==
    /\ dirs' = dirs \cup {d}
    /\ Goto(p, next)

os_mkdir(p, d, next) ==
    IF d \in dirs
      THEN /\ dirs' = dirs
           /\ Goto(p, "raised")
      ELSE /\ dirs' = dirs \cup {d}
           /\ Goto(p, next)

(***************************************************************************)
(* save_mode                                                               *)
(***************************************************************************)
SaveCheck(p) ==
    /\ At(p, "save_check")
    /\ Goto(p, IF SaveDir \in dirs THEN "save_write" ELSE "save_mkdir")
    /\ UNCHANGED <<fsVars, ret, arg, model, self, trainVars, evalVars>>

SaveMkdir(p) ==
    /\ At(p, "save_mkdir")
    /\ os_mkdir(p, SaveDir, "save_write")
    /\ UNCHANGED <<files, log, plots, npy, csv, printed, ret, arg, model, self,
                   trainVars, evalVars>>

SaveWrite(p) ==
    /\ At(p, "save_write")
    /\ files' = (SavePath(self[p]) :> [params |-> model[p], by |-> Triple(self[p])]) @@ files
    /\ ckptAcc' = IF p = Main /\ model[p] = valParams THEN test_accuracy_avg ELSE -1
    /\ Return(p)
    /\ UNCHANGED <<dirs, log, plots, npy, csv, printed, ret, arg, model, self,
                   nTrain, epoch, step, last_test_accuracy, test_accuracy_avg,
                   verCount, nVal, bestAcc, valParams, evalVars>>

(***************************************************************************)
(* load_model                                                              *)
(***************************************************************************)
load_model_unguarded(p) ==
    IF LoadPath(self[p]) \in DOMAIN files
      THEN [raised |-> FALSE, params |-> files[LoadPath(self[p])].params]
      ELSE [raised |-> TRUE, params |-> model[p]]

load_model_skipped(p) == [raised |-> FALSE, params |-> model[p]]

load_model(p) ==
    IF LoadPath(self[p]) \in DOMAIN files
      THEN [raised |-> FALSE, params |-> files[LoadPath(self[p])].params]
      ELSE [raised |-> FALSE, params |-> model[p]]

(***************************************************************************)
(* log_write                                                               *)
(***************************************************************************)
LogCheck(p) ==
    /\ At(p, "log_check")
    /\ Goto(p, IF LogDir \in dirs THEN "log_open" ELSE "log_mkdir")
    /\ UNCHANGED <<fsVars, ret, arg, model, self, trainVars, evalVars>>

LogMkdir(p) ==
    /\ At(p, "log_mkdir")
    /\ os_mkdir(p, LogDir, "log_open")
    /\ UNCHANGED <<files, log, plots, npy, csv, printed, ret, arg, model, self,
                   trainVars, evalVars>>

\* open(path, 'w') on a missing file and open(path, 'a') on an existing one
\* both leave the earlier lines and add the new one at the end
LogOpenWrite(p) ==
    /\ At(p, "log_open")
    /\ log' = Append(log, arg[p])
    /\ Return(p)
    /\ UNCHANGED <<dirs, files, plots, npy, csv, printed, ret, arg, model, self,
                   trainVars, evalVars>>

(***************************************************************************)
(* draw_loss_plt                                                           *)
(***************************************************************************)
PltCheck(p) ==
    /\ At(p, "plt_check")
    /\ Goto(p, IF DrawDir \in dirs THEN "plt_savefig" ELSE "plt_mkdir")
    /\ UNCHANGED <<fsVars, ret, arg, model, self, trainVars, evalVars>>

PltMkdir(p) ==
    /\ At(p, "plt_mkdir")
    /\ os_mkdir(p, DrawDir, "plt_savefig")
    /\ UNCHANGED <<files, log, plots, npy, csv, printed, ret, arg, model, self,
                   trainVars, evalVars>>

PltSavefig(p) ==
    /\ At(p, "plt_savefig")
    /\ plots' = plots \cup {arg[p]}
    /\ Return(p)
    /\ UNCHANGED <<dirs, files, log, npy, csv, printed, ret, arg, model, self,
                   trainVars, evalVars>>

(***************************************************************************)
(* __init__                                                                *)
(***************************************************************************)
DanInit(p) ==
    /\ At(p, "new")
    /\ LET o == IF self[p].check_point THEN load_model(p)
                ELSE [raised |-> FALSE, params |-> model[p]]
       IN /\ model' = [model EXCEPT ![p] = o.params]
          /\ Goto(p, IF o.raised THEN "raised" ELSE "idle")
    /\ UNCHANGED <<fsVars, ret, arg, self, trainVars, evalVars>>

(***************************************************************************)
(* train                                                                   *)
(*                                                                         *)
(* A validation accuracy is the number of correct validation samples out   *)
(* of ValSize, the size of the validation set: accuracy 1 is ValSize.      *)
(* The lists of training losses and accuracies, which only feed the plots, *)
(* are left out.  The driver calls train() at most once on an instance,    *)
(* and test() after it.                                                    *)
(***************************************************************************)
TrainLens == {k * ValEvery + r : k \in 0..MaxFull, r \in 0..1}

\* the loops' next position after step s of epoch e
AfterStep(e, s) ==
    IF s + 1 < nTrain THEN [epoch |-> e, step |-> s + 1, pc |-> "train_step"]
    ELSE IF e + 1 < self[Main].epoch THEN [epoch |-> e + 1, step |-> 0, pc |-> "train_step"]
    ELSE [epoch |-> e, step |-> s, pc |-> "train_plot"]

Advance(p) ==
    /\ epoch' = AfterStep(epoch, step).epoch
    /\ step' = AfterStep(epoch, step).step
    /\ Goto(p, AfterStep(epoch, step).pc)

ValidationDue_off_by_one(s) == (s + 1) % ValEvery = 0

ValidationDue(s) == s % ValEvery = 0

\* if last_test_accuracy == 1: last_test_accuracy = 0
ResetAtOne(a) == IF a = ValSize THEN 0 ELSE a

Max(a, b) == IF a >= b THEN a ELSE b

TrainStart(p) ==
    /\ p = Main
    /\ At(p, "idle")
    /\ called = "none"
    /\ called' = "train"
    /\ \E n \in TrainLens :
         /\ nTrain' = n
         /\ Goto(p, IF n > 0 /\ self[p].epoch > 0 THEN "train_step" ELSE "train_plot")
    /\ epoch' = 0
    /\ step' = 0
    /\ last_test_accuracy' = 0
    /\ nVal' = 0
    /\ bestAcc' = -1
    /\ UNCHANGED <<fsVars, ret, arg, model, self, test_accuracy_avg, verCount,
                   valParams, ckptAcc, samples, pos, acc, loss, prediction,
                   probability, result>>

\* one batch: forward, loss, optimizer.step(); then the validation test
TrainStep(p) ==
    /\ p = Main
    /\ At(p, "train_step")
    /\ model' = [model EXCEPT ![p] = verCount + 1]
    /\ verCount' = verCount + 1
    /\ IF ValidationDue(step)
         THEN /\ Goto(p, "validate")
              /\ UNCHANGED <<epoch, step>>
         ELSE Advance(p)
    /\ UNCHANGED <<fsVars, ret, arg, self, nTrain, last_test_accuracy,
                   test_accuracy_avg, nVal, bestAcc, valParams, ckptAcc, evalVars>>

\* the validation pass and the decision to save
Validate(p) ==
    /\ p = Main
    /\ At(p, "validate")
    /\ \E k \in 0..ValSize :
         /\ test_accuracy_avg' = k
         /\ bestAcc' = Max(bestAcc, k)
         /\ last_test_accuracy' = ResetAtOne(last_test_accuracy)
         /\ IF ResetAtOne(last_test_accuracy) <= k
              THEN /\ Call(p, "save_check", "none", "train_saved")
                   /\ UNCHANGED <<epoch, step>>
              ELSE /\ Advance(p)
                   /\ UNCHANGED <<ret, arg>>
    /\ nVal' = nVal + 1
    /\ valParams' = model[p]
    /\ UNCHANGED <<fsVars, model, self, nTrain, verCount, ckptAcc, evalVars>>

TrainSaved(p) ==
    /\ p = Main
    /\ At(p, "train_saved")
    /\ last_test_accuracy' = test_accuracy_avg
    /\ Advance(p)
    /\ UNCHANGED <<fsVars, ret, arg, model, self, nTrain, test_accuracy_avg,
                   verCount, nVal, bestAcc, valParams, ckptAcc, evalVars>>

TrainPlot(p) ==
    /\ p = Main
    /\ At(p, "train_plot")
    /\ Call(p, "plt_check", <<"train_loss", self[p].encoder_name>>, "train_plot2")
    /\ UNCHANGED <<fsVars, model, self, trainVars, evalVars>>

TrainPlot2(p) ==
    /\ p = Main
    /\ At(p, "train_plot2")
    /\ Call(p, "plt_check", <<"test_loss", self[p].encoder_name>>, "idle")
    /\ UNCHANGED <<fsVars, model, self, trainVars, evalVars>>

(***************************************************************************)
(* Evaluation: test, test_attention, prediction_real_data.                 *)
(*                                                                         *)
(* A sample is [label, length]; its id is its position in the data set.    *)
(* The network's output for a batch is the predicted label of each sample, *)
(* any value the network can give.  The loss of a batch stands for the     *)
(* cross entropy of the output against the labels: the number of samples   *)
(* the output gets wrong.                                                  *)
(***************************************************************************)
Labels == {0, 1}
Lengths == {499, 500}
AttValues == {"u", "v"}
Samples == [label : Labels, length : Lengths]

Min(a, b) == IF a <= b THEN a ELSE b

RECURSIVE SeqSum(_)
SeqSum(s) == IF s = <<>> THEN 0 ELSE Head(s) + SeqSum(Tail(s))

\* the data loader's next batch: the samples pos+1 .. pos+batch_size
BatchLen(p) == Min(self[p].batch_size, Len(samples) - pos)
BatchY(p) == [i \in 1..BatchLen(p) |-> samples[pos + i].label]
BatchLength(p) == [i \in 1..BatchLen(p) |-> samples[pos + i].length]
BatchIds(p) == [i \in 1..BatchLen(p) |-> pos + i]

\* [1 if prey[i] == y[i] else 0 for i in range(len(y))]
Correct(prey, y) == [i \in 1..Len(y) |-> IF prey[i] = y[i] THEN 1 ELSE 0]

CrossEntropy(prey, y) == Len(y) - SeqSum(Correct(prey, y))

Bucket_rounded(length) == (length + 1) \div BucketWidth

\* int(length[i] // 500)
Bucket(length) == length \div BucketWidth

\* segment_statistic, from sample i of the batch on
RECURSIVE segment_statistic(_, _, _, _, _)
segment_statistic(res, prey, y, length, i) ==
    IF i > Len(prey) THEN res
    ELSE LET k == Bucket(length[i])
             old == IF k \in DOMAIN res THEN res[k] ELSE <<>>
             bit == IF prey[i] = y[i] THEN 1 ELSE 0
         IN segment_statistic((k :> Append(old, bit)) @@ res, prey, y, length, i + 1)

EvalLocalsReset ==
    /\ pos' = 0
    /\ acc' = <<>>
    /\ loss' = <<>>
    /\ prediction' = <<>>
    /\ probability' = <<>>

TestStart(p) ==
    /\ p = Main
    /\ At(p, "idle")
    /\ called \in {"none", "train"}
    /\ called' = "test"
    /\ model' = [model EXCEPT ![p] = load_model(p).params]
    /\ Goto(p, IF load_model(p).raised THEN "raised" ELSE "test_batch")
    /\ EvalLocalsReset
    /\ result' = <<>>
    /\ UNCHANGED <<fsVars, ret, arg, self, trainVars, samples>>

TestBatch(p) ==
    /\ p = Main
    /\ At(p, "test_batch")
    /\ pos < Len(samples)
    /\ \E prey \in [1..BatchLen(p) -> Labels] :
         /\ acc' = acc \o Correct(prey, BatchY(p))
         /\ loss' = Append(loss, CrossEntropy(prey, BatchY(p)))
         /\ prediction' = prediction \o prey
         /\ result' = segment_statistic(result, prey, BatchY(p), BatchLength(p), 1)
    /\ pos' = pos + BatchLen(p)
    /\ UNCHANGED <<fsVars, procVars, trainVars, samples, probability, called>>

\* loss_avg = sum(loss) / len(loss) raises ZeroDivisionError on an empty loader
TestReport(p) ==
    /\ p = Main
    /\ At(p, "test_batch")
    /\ pos = Len(samples)
    /\ IF Len(loss) = 0
         THEN /\ Goto(p, "raised")
              /\ UNCHANGED <<ret, arg>>
         ELSE Call(p, "log_check",
                   [method |-> "test", size |-> Len(acc), correct |-> SeqSum(acc),
                    loss |-> SeqSum(loss), params |-> model[p]],
                   "test_recoding")
    /\ UNCHANGED <<fsVars, model, self, trainVars, evalVars>>

\* if recoding: save_all_input_prediction_result(ids_list, grand_true, prediction)
TestRecoding(p) ==
    /\ p = Main
    /\ At(p, "test_recoding")
    /\ \E recoding \in BOOLEAN :
         csv' = IF recoding
                  THEN [i \in 1..Len(prediction) |-> <<i, samples[i].label, prediction[i]>>]
                  ELSE csv
    /\ Goto(p, "idle")
    /\ UNCHANGED <<dirs, files, log, plots, npy, printed, ret, arg, model, self,
                   trainVars, evalVars>>

\* save_attention_matrix: one .npy file for every sample with result[i] == 1
RECURSIVE save_attention_matrix(_, _, _, _, _)
save_attention_matrix(fs, attention_matrix, ids, res, i) ==
    IF i > Len(attention_matrix) THEN fs
    ELSE save_attention_matrix(
             IF res[i] = 1 THEN (ids[i] :> attention_matrix[i]) @@ fs ELSE fs,
             attention_matrix, ids, res, i + 1)

AttStart(p) ==
    /\ p = Main
    /\ At(p, "idle")
    /\ called = "none"
    /\ called' = "test_attention"
    /\ model' = [model EXCEPT ![p] = load_model(p).params]
    /\ Goto(p, IF load_model(p).raised THEN "raised" ELSE "att_batch")
    /\ EvalLocalsReset
    /\ UNCHANGED <<fsVars, ret, arg, self, trainVars, samples, result>>

AttTmp_from_attention(prey, y, attention) ==
    [i \in 1..Len(y) |-> IF prey[i] = y[i] /\ attention[i] = "u" THEN 1 ELSE 0]

\* tmp = [1 if prey[i] == y[i] else 0 for i in range(len(y))]
AttTmp(prey, y, attention) == Correct(prey, y)

\* prediction keeps the outputs as history: test_attention itself drops them
AttBatch(p) ==
    /\ p = Main
    /\ At(p, "att_batch")
    /\ pos < Len(samples)
    /\ \E prey \in [1..BatchLen(p) -> Labels], attention \in [1..BatchLen(p) -> AttValues] :
         LET tmp == AttTmp(prey, BatchY(p), attention)
         IN /\ acc' = acc \o tmp
            /\ loss' = Append(loss, CrossEntropy(prey, BatchY(p)))
            /\ prediction' = prediction \o prey
            /\ npy' = save_attention_matrix(npy, attention, BatchIds(p), tmp, 1)
    /\ dirs' = dirs \cup {LogDir, AttDir}
    /\ pos' = pos + BatchLen(p)
    /\ UNCHANGED <<files, log, plots, csv, printed, procVars, trainVars, samples,
                   probability, result, called>>

AttReport(p) ==
    /\ p = Main
    /\ At(p, "att_batch")
    /\ pos = Len(samples)
    /\ IF Len(loss) = 0
         THEN /\ Goto(p, "raised")
              /\ printed' = printed
         ELSE /\ printed' = Append(printed,
                   [method |-> "test_attention", size |-> Len(acc),
                    correct |-> SeqSum(acc), loss |-> SeqSum(loss), params |-> model[p]])
              /\ Goto(p, "idle")
    /\ UNCHANGED <<dirs, files, log, plots, npy, csv, ret, arg, model, self,
                   trainVars, evalVars>>

(***************************************************************************)
(* prediction_real_data                                                    *)
(***************************************************************************)
label_dict == [pre_seizure |-> 1, non_seizure |-> 0]

\* len(v): the length of a list, TypeError for a float
py_len(v) ==
    IF v.type = "list" THEN [raised |-> FALSE, value |-> Len(v.items)]
    ELSE [raised |-> TRUE, value |-> 0]

\* reading the file, cutting it into segments, building the data loader
PredictStart(p) ==
    /\ p = Main
    /\ At(p, "idle")
    /\ called = "none"
    /\ called' = "prediction_real_data"
    /\ \E n \in 0..MaxSamples, label \in DOMAIN label_dict, data_length \in Lengths :
         samples' = [i \in 1..n |-> [label |-> label_dict[label], length |-> data_length]]
    /\ EvalLocalsReset
    /\ Goto(p, "predict_batch")
    /\ UNCHANGED <<fsVars, ret, arg, model, self, trainVars, result>>

\* probability += [1 if x == label_int else 0 for x in prediction]
PredictBatch(p) ==
    /\ p = Main
    /\ At(p, "predict_batch")
    /\ pos < Len(samples)
    /\ \E prey \in [1..BatchLen(p) -> Labels] :
         /\ prediction' = prediction \o prey
         /\ probability' = probability \o
                [i \in 1..Len(prediction') |->
                    IF prediction'[i] = samples[1].label THEN 1 ELSE 0]
    /\ pos' = pos + BatchLen(p)
    /\ UNCHANGED <<fsVars, procVars, trainVars, samples, acc, loss, result, called>>

\* accuracy = sum(probability) / len(probability), a float, and the log line
\* formatted with len(accuracy)
PredictReport(p) ==
    /\ p = Main
    /\ At(p, "predict_batch")
    /\ pos = Len(samples)
    /\ IF Len(probability) = 0
         THEN /\ Goto(p, "raised")
              /\ UNCHANGED <<ret, arg>>
         ELSE LET accuracy == [type |-> "float", num |-> SeqSum(probability),
                               den |-> Len(probability)]
              IN IF py_len(accuracy).raised
                   THEN /\ Goto(p, "raised")
                        /\ UNCHANGED <<ret, arg>>
                   ELSE Call(p, "log_check",
                             [method |-> "prediction_real_data",
                              size |-> (Len(samples) + self[p].batch_size - 1)
                                           \div self[p].batch_size,
                              correct |-> py_len(accuracy).value,
                              loss |-> 0, params |-> model[p]],
                             "predict_save")
    /\ UNCHANGED <<fsVars, model, self, trainVars, evalVars>>

\* the table of ids, ground truth and predictions appended to save_file; the
\* position is never reached, PredictReport raising for every input
PredictSave(p) ==
    /\ p = Main
    /\ At(p, "predict_save")
    /\ LET batches == (Len(samples) + self[p].batch_size - 1) \div self[p].batch_size
       IN IF batches # Len(prediction)
            THEN /\ Goto(p, "raised")
                 /\ csv' = csv
            ELSE /\ csv' = csv \o [i \in 1..Len(prediction) |->
                                      <<i, samples[1].label, prediction[i]>>]
                 /\ Goto(p, "idle")
    /\ UNCHANGED <<dirs, files, log, plots, npy, printed, ret, arg, model, self,
                   trainVars, evalVars>>

(***************************************************************************)
(* Initial values shared by the specifications.                            *)
(***************************************************************************)
DefaultSelf ==
    [encoder_name |-> <<"a">>, label_classifier_name |-> <<"a">>, patient |-> <<"p">>,
     check_point |-> FALSE, epoch |-> 1, batch_size |-> 1]

TrainLocalsInit ==
    /\ nTrain = 0
    /\ epoch = 0
    /\ step = 0
    /\ last_test_accuracy = 0
    /\ test_accuracy_avg = 0
    /\ verCount = 1
    /\ nVal = 0
    /\ bestAcc = -1
    /\ valParams = -1
    /\ ckptAcc = -1

EvalLocalsInit ==
    /\ pos = 0
    /\ acc = <<>>
    /\ loss = <<>>
    /\ prediction = <<>>
    /\ probability = <<>>
    /\ result = <<>>
    /\ called = "none"

EmptyOutputs ==
    /\ log = <<>>
    /\ plots = {}
    /\ npy = <<>>
    /\ csv = <<>>
    /\ printed = <<>>

(***************************************************************************)
(* SpecRace: two processes run save_mode, log_write or draw_loss_plt on    *)
(* the shared file system.                                                 *)
(***************************************************************************)
HelperEntry == [save_mode |-> "save_check", log_write |-> "log_check",
                draw_loss_plt |-> "plt_check"]
HelperNames == DOMAIN HelperEntry

RaceInit ==
    /\ dirs \in SUBSET DirNames
    /\ files = <<>>
    /\ EmptyOutputs
    /\ pc = [p \in Procs |-> "idle"]
    /\ ret = [p \in Procs |-> "done"]
    /\ arg = [p \in Procs |-> "none"]
    /\ model = [p \in Procs |-> 0]
    /\ self = [p \in Procs |-> DefaultSelf]
    /\ TrainLocalsInit
    /\ EvalLocalsInit
    /\ samples = <<>>

RaceCall(p) ==
    /\ At(p, "idle")
    /\ \E op \in HelperNames : Call(p, HelperEntry[op], op, "done")
    /\ UNCHANGED <<fsVars, model, self, trainVars, evalVars>>

RaceNext ==
    \E p \in Procs :
        \/ RaceCall(p)
        \/ SaveCheck(p) \/ SaveMkdir(p) \/ SaveWrite(p)
        \/ LogCheck(p) \/ LogMkdir(p) \/ LogOpenWrite(p)
        \/ PltCheck(p) \/ PltMkdir(p) \/ PltSavefig(p)

SpecRace == RaceInit /\ [][RaceNext]_vars

(***************************************************************************)
(* Spec: one process constructs a Dan, trains it and tests it.  The        *)
(* checkpoint of an earlier run of the same configuration may exist.       *)
(***************************************************************************)
PriorCheckpoint(s) == SavePath(s) :> [params |-> 1, by |-> Triple(s)]

OneSampleSet == {<<[label |-> 1, length |-> 500]>>}

Init ==
    /\ dirs \in {{}, DirNames}
    /\ files \in {<<>>, PriorCheckpoint(DefaultSelf)}
    /\ EmptyOutputs
    /\ pc = [p \in Procs |-> IF p = Main THEN "new" ELSE "off"]
    /\ ret = [p \in Procs |-> "idle"]
    /\ arg = [p \in Procs |-> "none"]
    /\ model = [p \in Procs |-> 0]
    /\ \E cp \in BOOLEAN, e \in 1..MaxEpoch :
         self = [p \in Procs |-> [DefaultSelf EXCEPT !.check_point = cp, !.epoch = e]]
    /\ TrainLocalsInit
    /\ EvalLocalsInit
    /\ samples \in OneSampleSet

Next ==
    \E p \in Procs :
        \/ DanInit(p)
        \/ TrainStart(p) \/ TrainStep(p) \/ Validate(p) \/ TrainSaved(p)
        \/ TrainPlot(p) \/ TrainPlot2(p)
        \/ SaveCheck(p) \/ SaveMkdir(p) \/ SaveWrite(p)
        \/ PltCheck(p) \/ PltMkdir(p) \/ PltSavefig(p)
        \/ TestStart(p) \/ TestBatch(p) \/ TestReport(p) \/ TestRecoding(p)
        \/ LogCheck(p) \/ LogMkdir(p) \/ LogOpenWrite(p)

Spec == Init /\ [][Next]_vars

(***************************************************************************)
(* SpecEval: one process constructs a Dan and runs one of test,            *)
(* test_attention and prediction_real_data on a data set.                  *)
(***************************************************************************)
TestSets == UNION {[1..n -> Samples] : n \in 1..MaxSamples}

EvalInit ==
    /\ dirs \in {{}, DirNames}
    /\ files \in {<<>>, PriorCheckpoint(DefaultSelf)}
    /\ EmptyOutputs
    /\ pc = [p \in Procs |-> IF p = Main THEN "new" ELSE "off"]
    /\ ret = [p \in Procs |-> "idle"]
    /\ arg = [p \in Procs |-> "none"]
    /\ model = [p \in Procs |-> 0]
    /\ \E b \in 1..MaxBatchSize :
         self = [p \in Procs |-> [DefaultSelf EXCEPT !.batch_size = b]]
    /\ TrainLocalsInit
    /\ EvalLocalsInit
    /\ samples \in TestSets

EvalNext ==
    \E p \in Procs :
        \/ DanInit(p)
        \/ TestStart(p) \/ TestBatch(p) \/ TestReport(p) \/ TestRecoding(p)
        \/ LogCheck(p) \/ LogMkdir(p) \/ LogOpenWrite(p)
        \/ AttStart(p) \/ AttBatch(p) \/ AttReport(p)
        \/ PredictStart(p) \/ PredictBatch(p) \/ PredictReport(p)

SpecEval == EvalInit /\ [][EvalNext]_vars

(***************************************************************************)
(* SpecCkpt: process A, a trained Dan, saves its checkpoint; process B     *)
(* constructs a Dan with check_point=True.  Each has its own names.        *)
(***************************************************************************)
Alphabet == {"a", "_"}
Names == UNION {[1..n -> Alphabet] : n \in 1..MaxNameLen}
Patients == {<<"p">>}
Configs == {[DefaultSelf EXCEPT !.encoder_name = e, !.label_classifier_name = l,
                                !.patient = t, !.check_point = TRUE] :
                e \in Names, l \in Names, t \in Patients}

CkptInit ==
    /\ dirs \in {{}, DirNames}
    /\ files = <<>>
    /\ EmptyOutputs
    /\ pc = [p \in Procs |-> IF p = Main THEN "idle" ELSE "new"]
    /\ ret = [p \in Procs |-> "done"]
    /\ arg = [p \in Procs |-> "none"]
    /\ model = [p \in Procs |-> IF p = Main THEN 2 ELSE 0]
    /\ self \in [Procs -> Configs]
    /\ TrainLocalsInit
    /\ EvalLocalsInit
    /\ samples = <<>>

CkptSaveCall(p) ==
    /\ p = Main
    /\ At(p, "idle")
    /\ Call(p, "save_check", "none", "done")
    /\ UNCHANGED <<fsVars, model, self, trainVars, evalVars>>

CkptNext ==
    \E p \in Procs :
        \/ CkptSaveCall(p)
        \/ SaveCheck(p) \/ SaveMkdir(p) \/ SaveWrite(p)
        \/ DanInit(p)

SpecCkpt == CkptInit /\ [][CkptNext]_vars

(***************************************************************************)
(* The claims.                                                             *)
(***************************************************************************)
Ceil(n, d) == (n + d - 1) \div d

TrainReturned == pc[Main] \in {"train_plot", "train_plot2", "plt_check", "plt_mkdir",
                               "plt_savefig", "idle"}

\* C1: during train(), after every validation pass the checkpoint file exists
\* and holds the parameters of the validation pass with the highest validation
\* accuracy of the run so far; a pass with a strictly lower accuracy than an
\* earlier one never overwrites it.
C1_CheckpointIsBest ==
    (called = "train" /\ nVal > 0 /\ (pc[Main] = "train_step" \/ TrainReturned)) =>
        /\ SavePath(self[Main]) \in DOMAIN files
        /\ ckptAcc = bestAcc

\* C3: in train() a validation pass runs exactly at the steps whose index in
\* the epoch is a multiple of 50, after that step's optimizer step: the pass
\* measures the parameters that step produced, and with E epochs of N batches
\* E * ceil(N / 50) passes have run when the loops end.
C3_ValidationEvery50 ==
    called = "train" =>
        /\ pc[Main] = "validate" =>
              /\ step % ValEvery = 0
              /\ verCount - 1 = epoch * nTrain + step + 1
              /\ model[Main] = verCount
              /\ nVal = epoch * Ceil(nTrain, ValEvery) + step \div ValEvery
        /\ pc[Main] = "train_step" =>
              nVal = epoch * Ceil(nTrain, ValEvery) + Ceil(step, ValEvery)
        /\ TrainReturned => nVal = self[Main].epoch * Ceil(nTrain, ValEvery)

C3_Witness ==
    /\ called = "train"
    /\ pc[Main] = "idle"
    /\ self[Main].epoch = 2
    /\ nTrain = ValEvery + 1
    /\ nVal = 4

\* C10: test() loads the checkpoint before it evaluates a batch: when a
\* checkpoint exists, the batches are evaluated with, and the logged metrics
\* are those of, the parameters in the checkpoint file, whatever parameters
\* the last training step left in memory.
C10_TestUsesCheckpoint ==
    (called = "test" /\ LoadPath(self[Main]) \in DOMAIN files) =>
        /\ model[Main] = files[LoadPath(self[Main])].params
        /\ \A i \in 1..Len(log) :
              log[i].method = "test" => log[i].params = files[LoadPath(self[Main])].params

C10_Witness ==
    /\ called = "test"
    /\ pc[Main] = "idle"
    /\ nVal > 0
    /\ Len(log) = 1
    /\ log[1].params # verCount
    /\ log[1].params = files[LoadPath(self[Main])].params

\* C2: with no checkpoint file for the instance's names, load_model raises
\* nothing and leaves the parameters as constructed, and test() and
\* test_attention() evaluate every batch with those parameters and report
\* one result.
C2_MissingCheckpoint ==
    (LoadPath(self[Main]) \notin DOMAIN files /\ called \in {"test", "test_attention"}) =>
        /\ pc[Main] # "raised"
        /\ model[Main] = 0
        /\ pc[Main] = "idle" =>
              /\ pos = Len(samples)
              /\ Len(acc) = Len(samples)
              /\ called = "test" =>
                    /\ Len(log) = 1
                    /\ log[1].params = 0
                    /\ log[1].size = Len(samples)
              /\ called = "test_attention" =>
                    /\ Len(printed) = 1
                    /\ printed[1].params = 0
                    /\ printed[1].size = Len(samples)

C2_Witness ==
    /\ LoadPath(self[Main]) \notin DOMAIN files
    /\ called = "test"
    /\ pc[Main] = "idle"
    /\ Len(samples) > self[Main].batch_size
    /\ Len(log) = 1

\* the entries of bucket b after the first n samples: a 1 for a sample
\* predicted right and a 0 for one predicted wrong, in the order evaluated
RECURSIVE FlagsOfBucket(_, _)
FlagsOfBucket(b, n) ==
    IF n = 0 THEN <<>>
    ELSE LET r == FlagsOfBucket(b, n - 1)
         IN IF samples[n].length \div 500 = b
              THEN Append(r, IF prediction[n] = samples[n].label THEN 1 ELSE 0)
              ELSE r

RECURSIVE TotalEntries(_, _)
TotalEntries(res, keys) ==
    IF keys = {} THEN 0
    ELSE LET k == CHOOSE x \in keys : TRUE
         IN Len(res[k]) + TotalEntries(res, keys \ {k})

\* C4: during test() every evaluated sample adds exactly one entry to
\* self.result, in the bucket floor(length / 500), 1 for a right prediction
\* and 0 for a wrong one: the buckets hold as many entries as samples were
\* evaluated.
C4_SegmentStatistic ==
    called = "test" =>
        /\ DOMAIN result = {samples[i].length \div 500 : i \in 1..pos}
        /\ \A b \in DOMAIN result : result[b] = FlagsOfBucket(b, pos)
        /\ TotalEntries(result, DOMAIN result) = pos
        /\ Len(prediction) = pos

C4_Witness ==
    /\ called = "test"
    /\ pc[Main] = "idle"
    /\ pos = 3
    /\ Cardinality(DOMAIN result) = 2
    /\ \E b \in DOMAIN result : result[b] = <<1, 0>>

\* the samples of batch j (batches of size b over n samples)
BatchOf(j, b, n) == ((j - 1) * b + 1)..Min(j * b, n)

\* C6: in test_attention() the file <ids[i]>.npy is written exactly for the
\* samples predicted right, and the accuracy and loss lists after each batch
\* are those the predictions and the labels give, whatever the attention
\* values are.
C6_AttentionOnlyWritesFiles ==
    called = "test_attention" =>
        /\ DOMAIN npy = {i \in 1..pos : prediction[i] = samples[i].label}
        /\ acc = [i \in 1..pos |-> IF prediction[i] = samples[i].label THEN 1 ELSE 0]
        /\ Len(loss) = Ceil(pos, self[Main].batch_size)
        /\ \A j \in 1..Len(loss) :
              loss[j] = Cardinality({i \in BatchOf(j, self[Main].batch_size, pos) :
                                        prediction[i] # samples[i].label})

C6_Witness ==
    /\ called = "test_attention"
    /\ pc[Main] = "idle"
    /\ Len(printed) = 1
    /\ \E i, j, k \in 1..pos :
          /\ i \in DOMAIN npy /\ npy[i] = "u"
          /\ j \in DOMAIN npy /\ npy[j] = "v"
          /\ k \notin DOMAIN npy

\* C5: for an input of at least one segment prediction_real_data() runs to
\* completion: it writes one log line, one table row per segment, and
\* returns without raising.
C5_PredictionCompletes ==
    (called = "prediction_real_data" /\ Len(samples) >= 1
        /\ pc[Main] \in {"idle", "raised"}) =>
        /\ pc[Main] = "idle"
        /\ Len(log) = 1
        /\ Len(csv) = Len(samples)

\* C9: in prediction_real_data() the correctness list has one entry per
\* segment processed so far: after every batch it is as long as the
\* prediction list.
C9_OneEntryPerSegment ==
    called = "prediction_real_data" => Len(probability) = Len(prediction)

MkdirPcs == {"save_mkdir", "log_mkdir", "plt_mkdir"}
MkdirDir == [save_mkdir |-> SaveDir, log_mkdir |-> LogDir, plt_mkdir |-> DrawDir]

\* C7: the existence check and os.mkdir are separate steps: a process that
\* saw the directory absent and reaches os.mkdir after another process has
\* created it fails there, and a failed process never goes on to its save,
\* log or plot.
C7_MkdirRace ==
    [][\A p \in Procs :
          /\ (pc[p] \in MkdirPcs /\ pc'[p] # pc[p]) =>
                (pc'[p] = "raised" <=> MkdirDir[pc[p]] \in dirs)
          /\ pc[p] = "raised" => pc'[p] = "raised"]_vars

C7_Witness ==
    \E p, q \in Procs :
        /\ p # q
        /\ arg[p] = arg[q]
        /\ pc[p] = "raised"
        /\ pc[q] = "done"

\* C8: a checkpoint is saved where load_model of the same three names looks
\* for it, and a Dan constructed with check_point=True only ever loads a
\* checkpoint that was saved under its own three names.
C8_OnlyOwnCheckpoint ==
    \A p \in Procs :
        /\ SavePath(self[p]) = LoadPath(self[p])
        /\ (p # Main /\ pc[p] = "idle" /\ model[p] # 0) =>
              \E f \in DOMAIN files :
                  /\ files[f].params = model[p]
                  /\ files[f].by = Triple(self[p])

====
